---- MODULE Spec2Model ----
(***************************************************************************)
(* The intrusive binary search tree of src/binary_tree/binary_tree.h and   *)
(* the intrusive doubly-linked list of src/linked_list/linked_list.h.      *)
(*                                                                         *)
(* The caller owns an array of tree_node objects (the node pool Nodes);    *)
(* the tree only links them.  A node pointer is a node index, nullptr is   *)
(* Null.  The pure functions below take the node array `ns` as an explicit *)
(* argument and return the node array after the call, so that the member   *)
(* functions of tree_node compose the way the C++ statements do.           *)
(***************************************************************************)
EXTENDS Integers, Sequences, FiniteSets, TLC

\* nullptr
Null == 0

\* Number of tree_node objects the caller owns.
NumNodes == 5

\* Number of calls made on the tree in one run.
MaxOps == 6

Nodes == 1..NumNodes

\* The key values the caller stores in its nodes.
Values == 1..NumNodes

VARIABLES
    nodes,       \* the caller's tree_node objects: parent, left, right, data
    head_node,   \* binary_tree::head_node
    node_count,  \* binary_tree::node_count
    live,        \* caller's view: values inserted (insert returned) and not erased
    erased,      \* caller's view: values erased and not inserted again
    last,        \* the last call made on the tree and the case it ran into
    ops,         \* number of calls made so far
    list_nodes,  \* the list_node objects: data_, next_, prev_
    list_last,   \* the last call made on a list, and what it returned
    observer_nodes, \* linked_list Observable: Observer::list_node_ and the
                    \* sentinel of each Observable::observer_list
    observer_list,  \* std::list Observable: Observable::observer_list
    attached,       \* caller's view, with each implementation: the observers
                    \* attached to each Observable and not detached since
    notifying,      \* the NotifyAll call in progress, or the last one made
    btree,          \* the Node objects of the tree given to TransformBinaryTree
    transformed,    \* TransformBinaryTree(root) has returned
    conversion      \* the value given to a gregorian conversion, and after
                    \* the calls what they returned

tree_vars == <<nodes, head_node, node_count, live, erased, last, ops>>

list_vars == <<list_nodes, list_last>>

observer_vars == <<observer_nodes, observer_list, attached, notifying>>

btree_vars == <<btree, transformed>>

\* What a call on the tree, on a list, on an Observable, on a Node tree and
\* of a gregorian conversion leave alone.
not_tree_vars == <<list_vars, observer_vars, btree_vars, conversion>>

not_list_vars == <<tree_vars, observer_vars, btree_vars, conversion>>

not_observer_vars == <<tree_vars, list_vars, btree_vars, conversion>>

not_btree_vars == <<tree_vars, list_vars, observer_vars, conversion>>

not_gregorian_vars == <<tree_vars, list_vars, observer_vars, btree_vars>>

vars == <<nodes, head_node, node_count, live, erased, last, ops,
          list_nodes, list_last,
          observer_nodes, observer_list, attached, notifying,
          btree, transformed, conversion>>

\* struct tree_node { parent; left; right; data; }
tree_node(d) == [parent |-> Null, left |-> Null, right |-> Null, data |-> d]

----------------------------------------------------------------------------
(* tree_node member functions *)

RECURSIVE get_leftest(_, _)
get_leftest(ns, node) ==
    IF ns[node].left # Null THEN get_leftest(ns, ns[node].left) ELSE node

RECURSIVE get_rightest(_, _)
get_rightest(ns, node) ==
    IF ns[node].right # Null THEN get_rightest(ns, ns[node].right) ELSE node

\* for (; node->parent and (node->parent->right == node); node = node->parent);
RECURSIVE ascend_while_right(_, _)
ascend_while_right(ns, node) ==
    IF ns[node].parent # Null /\ ns[ns[node].parent].right = node
    THEN ascend_while_right(ns, ns[node].parent)
    ELSE node

\* for (; node->parent and (node->parent->left == node); node = node->parent);
RECURSIVE ascend_while_left(_, _)
ascend_while_left(ns, node) ==
    IF ns[node].parent # Null /\ ns[ns[node].parent].left = node
    THEN ascend_while_left(ns, ns[node].parent)
    ELSE node

get_next(ns, this) ==
    IF ns[this].right # Null
    THEN get_leftest(ns, ns[this].right)
    ELSE ns[ascend_while_right(ns, this)].parent

\* Fault injection: tree_node::get_prev without the ascent over left links:
\* a node without a left child steps to its parent.
get_prev_no_ascent(ns, this) ==
    IF ns[this].left # Null
    THEN get_rightest(ns, ns[this].left)
    ELSE ns[this].parent

get_prev(ns, this) ==
    IF ns[this].left # Null
    THEN get_rightest(ns, ns[this].left)
    ELSE ns[ascend_while_left(ns, this)].parent

\* Fault injection: tree_node::insert without the test for an occupied child,
\* so that the node is attached directly under `this`.
tree_node_insert_overwrite(ns, this, node) ==
    LET n0 == [ns EXCEPT ![node].parent = Null,
                         ![node].left   = Null,
                         ![node].right  = Null]
    IN  IF n0[node].data < n0[this].data
        THEN [ns    |-> [n0 EXCEPT ![node].parent = this, ![this].left = node],
              threw |-> FALSE]
        ELSE IF n0[node].data > n0[this].data
        THEN [ns    |-> [n0 EXCEPT ![node].parent = this, ![this].right = node],
              threw |-> FALSE]
        ELSE [ns |-> n0, threw |-> TRUE]

\* tree_node::insert(node), called on `this`.  The result is the node array
\* after the call and whether the call threw std::runtime_error.
RECURSIVE tree_node_insert(_, _, _)
tree_node_insert(ns, this, node) ==
    LET n0 == [ns EXCEPT ![node].parent = Null,
                         ![node].left   = Null,
                         ![node].right  = Null]
    IN  IF n0[node].data < n0[this].data
        THEN IF n0[this].left # Null
             THEN tree_node_insert(n0, n0[this].left, node)
             ELSE [ns    |-> [n0 EXCEPT ![node].parent = this,
                                        ![this].left   = node],
                   threw |-> FALSE]
        ELSE IF n0[node].data > n0[this].data
        THEN IF n0[this].right # Null
             THEN tree_node_insert(n0, n0[this].right, node)
             ELSE [ns    |-> [n0 EXCEPT ![node].parent = this,
                                        ![this].right  = node],
                   threw |-> FALSE]
        ELSE [ns |-> n0, threw |-> TRUE]

\* tree_node::find(value), called on `node` (which may be nullptr: the loop
\* tests `node` before it reads node->data).
RECURSIVE tree_node_find(_, _, _)
tree_node_find(ns, node, value) ==
    IF node # Null /\ value # ns[node].data
    THEN IF value < ns[node].data
         THEN tree_node_find(ns, ns[node].left, value)
         ELSE tree_node_find(ns, ns[node].right, value)
    ELSE node

detach_from_parent(ns, this) ==
    IF ns[this].parent # Null
    THEN IF ns[ns[this].parent].right = this
         THEN [ns EXCEPT ![ns[this].parent].right = Null]
         ELSE [ns EXCEPT ![ns[this].parent].left = Null]
    ELSE ns

\* Fault injection: tree_node::replace with the test for the parent's side
\* inverted, so that the replacement is hung on the parent's other side.
replace_wrong_side(ns, this, ref) ==
    LET s1 == IF ns[this].parent # Null
              THEN IF ns[ns[this].parent].right # this
                   THEN [ns EXCEPT ![ns[this].parent].right = ns[this][ref]]
                   ELSE [ns EXCEPT ![ns[this].parent].left = ns[this][ref]]
              ELSE ns
        s2 == [s1 EXCEPT ![s1[this][ref]].parent = s1[this].parent]
    IN  [s2 EXCEPT ![this].parent = Null,
                   ![this].left   = Null,
                   ![this].right  = Null]

\* tree_node::replace(tree_node*& node).  The argument is a reference to one
\* of this's own child pointers, so `ref` names that member ("left" or
\* "right") and every use of `node` reads the member again.
replace(ns, this, ref) ==
    LET s1 == IF ns[this].parent # Null
              THEN IF ns[ns[this].parent].right = this
                   THEN [ns EXCEPT ![ns[this].parent].right = ns[this][ref]]
                   ELSE [ns EXCEPT ![ns[this].parent].left = ns[this][ref]]
              ELSE ns
        s2 == [s1 EXCEPT ![s1[this][ref]].parent = s1[this].parent]
    IN  [s2 EXCEPT ![this].parent = Null,
                   ![this].left   = Null,
                   ![this].right  = Null]

\* Fault injection: tree_node::remove() without the std::swap of the data.
swap_data_missing(ns, a, b) == ns

\* std::swap(this->data, next_node->data)
swap_data(ns, a, b) ==
    [ns EXCEPT ![a].data = ns[b].data, ![b].data = ns[a].data]

\* The branch of tree_node::remove() that `this` takes.
remove_case(ns, this) ==
    IF ns[this].left = Null /\ ns[this].right = Null THEN "leaf"
    ELSE IF ns[this].left = Null /\ ns[this].right # Null THEN "right_only"
    ELSE IF ns[this].left # Null /\ ns[this].right = Null THEN "left_only"
    ELSE IF ns[this].right = get_next(ns, this) THEN "next_is_right"
    ELSE "swap"

remove(ns, this) ==
    IF ns[this].left = Null /\ ns[this].right = Null
    THEN detach_from_parent(ns, this)
    ELSE IF ns[this].left = Null /\ ns[this].right # Null
    THEN replace(ns, this, "right")
    ELSE IF ns[this].left # Null /\ ns[this].right = Null
    THEN replace(ns, this, "left")
    ELSE LET next_node == get_next(ns, this)
         IN  IF ns[this].right = next_node
             THEN replace(ns, this, "right")
             ELSE detach_from_parent(swap_data(ns, this, next_node), next_node)

----------------------------------------------------------------------------
(* list_node member functions.  A list_node pointer is an index into the
   array `ls` of all list_node objects: the caller's nodes and, for every
   linked_list, its member sentinal_.  Each function returns the array after
   its statements have run in order, each reading what the previous wrote. *)

\* Number of list_node objects the caller owns.
NumListNodes == 3

\* Number of linked_list objects.
NumLists == 2

ListNodes == 1..NumListNodes

\* linked_list::sentinal_ of each list; a list is named by its sentinel.
Sentinels == (NumListNodes + 1)..(NumListNodes + NumLists)

\* list_node(data) and list_node(): next_(this), prev_(this).
list_node(this, d) == [data_ |-> d, next_ |-> this, prev_ |-> this]

\* prev_->next_ = next_; next_->prev_ = prev_;
unlink(ls, this) ==
    LET a == [ls EXCEPT ![ls[this].prev_].next_ = ls[this].next_]
    IN  [a EXCEPT ![a[this].next_].prev_ = a[this].prev_]

\* Fault injection: insert_after(node) that links node one node too late,
\* after this->next_.
insert_after_one_late(ls, this, node) ==
    LET a == unlink(ls, node)
        t == a[this].next_
        b == [a EXCEPT ![node].next_ = a[t].next_]
        c == [b EXCEPT ![node].prev_ = t]
        d == [c EXCEPT ![c[t].next_].prev_ = node]
    IN  [d EXCEPT ![t].next_ = node]

insert_after(ls, this, node) ==
    LET a == unlink(ls, node)
        b == [a EXCEPT ![node].next_ = a[this].next_]
        c == [b EXCEPT ![node].prev_ = this]
        d == [c EXCEPT ![c[this].next_].prev_ = node]
    IN  [d EXCEPT ![this].next_ = node]

\* Fault injection: insert_before(node) that links node after `this`.
insert_before_as_after(ls, this, node) == insert_after(ls, this, node)

insert_before(ls, this, node) ==
    LET a == unlink(ls, node)
        b == [a EXCEPT ![node].next_ = this]
        c == [b EXCEPT ![node].prev_ = b[this].prev_]
        d == [c EXCEPT ![c[this].prev_].next_ = node]
    IN  [d EXCEPT ![this].prev_ = node]

\* list_node::count(first, last); the loop does not end when last is not
\* ahead of first, which the fuel cuts off.
RECURSIVE count_from(_, _, _, _)
count_from(ls, iter, last_node, fuel) ==
    IF iter = last_node \/ fuel = 0
    THEN 0
    ELSE 1 + count_from(ls, ls[iter].next_, last_node, fuel - 1)

list_node_count(ls, first, last_node) ==
    count_from(ls, first, last_node, Cardinality(DOMAIN ls))

\* Fault injection: insert_before(first, last) without the two statements
\* that close the list the range is taken from.
insert_before_range_open(ls, this, first, last_node) ==
    LET last_prev == ls[last_node].prev_
        c == [ls EXCEPT ![ls[this].prev_].next_ = first]
        d == [c EXCEPT ![first].prev_ = c[this].prev_]
        e == [d EXCEPT ![last_prev].next_ = this]
    IN  [e EXCEPT ![this].prev_ = last_prev]

\* insert_before(first, last): the range [first, last) is moved before `this`.
insert_before_range(ls, this, first, last_node) ==
    LET last_prev == ls[last_node].prev_
        a == [ls EXCEPT ![ls[first].prev_].next_ = ls[last_prev].next_]
        b == [a EXCEPT ![a[last_prev].next_].prev_ = a[first].prev_]
        c == [b EXCEPT ![b[this].prev_].next_ = first]
        d == [c EXCEPT ![first].prev_ = c[this].prev_]
        e == [d EXCEPT ![last_prev].next_ = this]
    IN  [e EXCEPT ![this].prev_ = last_prev]

\* Fault injection: list_node::remove() that only unlinks.
list_node_remove_keeps_links(ls, this) == unlink(ls, this)

\* list_node::remove()
list_node_remove(ls, this) ==
    LET a == unlink(ls, this)
    IN  [a EXCEPT ![this].next_ = this, ![this].prev_ = this]

\* list_node::remove_forward(): the array after the call, and the node
\* returned.
remove_forward(ls, this) ==
    [ls |-> list_node_remove(ls, this), next |-> ls[this].next_]

----------------------------------------------------------------------------
(* linked_list member functions; `list` is the sentinel of the list *)

\* The nodes an iterator visits from iter until it equals stop, by operator++
\* (node_ = node_->next_); the fuel cuts off a walk that never gets there.
RECURSIVE walk(_, _, _, _)
walk(ls, iter, stop, fuel) ==
    IF iter = stop \/ fuel = 0
    THEN << >>
    ELSE <<iter>> \o walk(ls, ls[iter].next_, stop, fuel - 1)

\* The nodes an iterator visits from iter until it equals stop, by operator--
\* (node_ = node_->prev_).
RECURSIVE walk_back(_, _, _, _)
walk_back(ls, iter, stop, fuel) ==
    IF iter = stop \/ fuel = 0
    THEN << >>
    ELSE <<iter>> \o walk_back(ls, ls[iter].prev_, stop, fuel - 1)

list_begin(ls, list) == ls[list].next_

list_end(ls, list) == list

list_rbegin(ls, list) == ls[list].prev_

\* for (it = begin(); it != end(); ++it) visit(it.node_)
traversal(ls, list) ==
    walk(ls, list_begin(ls, list), list_end(ls, list), Cardinality(DOMAIN ls))

list_empty(ls, list) == ls[list].next_ = list

list_size(ls, list) == list_node_count(ls, ls[list].next_, list)

front(ls, list) == ls[ls[list].next_].data_

back(ls, list) == ls[ls[list].prev_].data_

\* Fault injection: insert(pos, first, last) without the test first == last.
linked_list_insert_range_unguarded(ls, pos, first, last_node) ==
    [ls |-> insert_before_range(ls, pos, first, last_node), ret |-> first]

\* insert(pos, first, last): the array after the call and the node of the
\* iterator returned.
linked_list_insert_range(ls, pos, first, last_node) ==
    IF first = last_node
    THEN [ls |-> ls, ret |-> pos]
    ELSE [ls |-> insert_before_range(ls, pos, first, last_node), ret |-> first]

\* pop_front() / pop_back()
linked_list_pop_front(ls, list) ==
    IF ~list_empty(ls, list) THEN list_node_remove(ls, ls[list].next_) ELSE ls

linked_list_pop_back(ls, list) ==
    IF ~list_empty(ls, list) THEN list_node_remove(ls, ls[list].prev_) ELSE ls

----------------------------------------------------------------------------
(* What a caller can observe of a tree through its public interface *)

\* The nodes reachable from `node` by left/right links.
RECURSIVE subtree(_, _, _)
subtree(ns, node, fuel) ==
    IF node = Null \/ fuel = 0
    THEN {}
    ELSE {node} \cup subtree(ns, ns[node].left, fuel - 1)
                \cup subtree(ns, ns[node].right, fuel - 1)

\* The number of tree_node objects in the node array ns.
pool_size(ns) == Cardinality(DOMAIN ns)

reachable(ns, head) == subtree(ns, head, pool_size(ns))

\* binary_tree::begin(): the position of the iterator it returns.
begin(ns, head) == IF head # Null THEN get_leftest(ns, head) ELSE Null

\* base_iterator::increment() / decrement() on position pos of the tree.
increment(ns, head, pos) ==
    IF pos = Null THEN get_leftest(ns, head) ELSE get_next(ns, pos)

decrement(ns, head, pos) ==
    IF pos = Null THEN get_rightest(ns, head) ELSE get_prev(ns, pos)

\* for (it = begin(); it != end(); ++it) visit(*it)
RECURSIVE forward_from(_, _, _, _)
forward_from(ns, head, pos, fuel) ==
    IF pos = Null \/ fuel = 0
    THEN << >>
    ELSE <<ns[pos].data>> \o forward_from(ns, head, increment(ns, head, pos), fuel - 1)

forward(ns, head) == forward_from(ns, head, begin(ns, head), pool_size(ns) + 1)

\* for (it = rbegin(); it != rend(); ++it) visit(*it), with
\* rbegin() == make_reverse_iterator(end()), rend() == make_reverse_iterator(begin()),
\* *it == *(--base) and ++it == --base.
RECURSIVE reverse_from(_, _, _, _)
reverse_from(ns, head, base, fuel) ==
    IF base = begin(ns, head) \/ fuel = 0
    THEN << >>
    ELSE LET prev == decrement(ns, head, base)
         IN  <<ns[prev].data>> \o reverse_from(ns, head, prev, fuel - 1)

reverse(ns, head) == reverse_from(ns, head, Null, pool_size(ns) + 1)

\* binary_tree::find(value): the position of the iterator it returns.
find(ns, head, value) == tree_node_find(ns, head, value)

\* Fault injection: binary_tree::insert without the three statements that
\* disconnect the node, so that a node made the head keeps the children it
\* had.
binary_tree_insert_keeps_links(ns, head, count, node) ==
    IF head # Null
    THEN LET r == tree_node_insert(ns, head, node)
         IN  [nodes |-> r.ns, head_node |-> head,
              node_count |-> IF r.threw THEN count ELSE count + 1,
              threw |-> r.threw]
    ELSE [nodes |-> ns, head_node |-> node,
          node_count |-> count + 1, threw |-> FALSE]

\* binary_tree::insert(node) on the tree (ns, head, count): the tree after the
\* call, and whether head_node->insert threw (node_count is then not touched).
binary_tree_insert(ns, head, count, node) ==
    LET n0 == [ns EXCEPT ![node].parent = Null,
                         ![node].left   = Null,
                         ![node].right  = Null]
    IN  IF head # Null
        THEN LET r == tree_node_insert(n0, head, node)
             IN  [nodes |-> r.ns, head_node |-> head,
                  node_count |-> IF r.threw THEN count ELSE count + 1,
                  threw |-> r.threw]
        ELSE [nodes |-> n0, head_node |-> node,
              node_count |-> count + 1, threw |-> FALSE]

\* binary_tree::erase(iter) with iter.pos == pos.
binary_tree_erase(ns, head, count, pos) ==
    [nodes |-> remove(ns, pos), head_node |-> head, node_count |-> count - 1]

size == node_count

empty == (head_node = Null)

----------------------------------------------------------------------------
(* Observer and Observable, in both implementations: the one over linked_list
   (an Observer carries its own list_node, whose data_ is the observer) and the
   one over std::list<Observer*>.  An observer is named by the index of its
   list_node, an Observable by the sentinel of its observer_list. *)

Observers == ListNodes

Observables == Sentinels

\* Longest std::list observer_list that is built.
MaxAttached == 3

\* Most Notify calls followed within one NotifyAll call.
MaxNotified == 5

\* What a Notify callback does: nothing, or one call on the Observable that
\* notifies it.
Calls ==
    {[call |-> "none", observer |-> Null]}
        \cup {[call |-> c, observer |-> o] : c \in {"Detach", "Attach"}, o \in Observers}

\* observer_list.push_back(observer.list_node_)
linked_list_Attach(ls, observable, observer) == insert_before(ls, observable, observer)

\* observer.list_node_.remove()
linked_list_Detach(ls, observable, observer) == list_node_remove(ls, observer)

\* observer_list.size()
linked_list_GetObserverCount(ls, observable) == list_size(ls, observable)

\* What Observer::Notify of `observer` does to the observer lists.
linked_list_Notify(ls, observable, observer, callback) ==
    CASE callback[observer].call = "Detach"
            -> linked_list_Detach(ls, observable, callback[observer].observer)
      [] callback[observer].call = "Attach"
            -> linked_list_Attach(ls, observable, callback[observer].observer)
      [] OTHER -> ls

\* Fault injection: the body of the loop of NotifyAll with the iterator
\* incremented after the call of Notify.
linked_list_NotifyAll_body_operate_first(ls, observable, iter, callback) ==
    LET after == linked_list_Notify(ls, observable, iter, callback)
    IN  [ls |-> after, iter |-> after[iter].next_, observer |-> iter]

\* The body of the loop of NotifyAll: observer = *observer_iter;
\* ++observer_iter; observer->Notify(notification).
linked_list_NotifyAll_body(ls, observable, iter, callback) ==
    [ls       |-> linked_list_Notify(ls, observable, iter, callback),
     iter     |-> ls[iter].next_,
     observer |-> iter]

\* std::list::push_back(&observer)
std_list_Attach(sl, observable, observer) ==
    [sl EXCEPT ![observable] = Append(@, observer)]

\* std::list::remove(&observer): every element equal to &observer is erased.
std_list_Detach(sl, observable, observer) ==
    [sl EXCEPT ![observable] = SelectSeq(@, LAMBDA x : x # observer)]

\* std::list::size()
std_list_GetObserverCount(sl, observable) == Len(sl[observable])

\* An iterator of a std::list: `at` is the index of the element it refers to,
\* one past the last index for end().  `stale` is Null for a valid iterator;
\* when the element it referred to has been erased, `stale` is the observer
\* that element held and `at` the index of the element that followed it.
std_list_iterator(at, stale) == [at |-> at, stale |-> stale]

\* What Observer::Notify of `observer` does to the observer list and to the
\* iterator that NotifyAll holds.
std_list_Notify(sl, observable, observer, callback, iter) ==
    LET seq    == sl[observable]
        target == callback[observer].observer
    IN  CASE callback[observer].call = "Detach"
                -> [sl   |-> std_list_Detach(sl, observable, target),
                    iter |-> std_list_iterator(
                                1 + Cardinality({j \in 1..(iter.at - 1) : seq[j] # target}),
                                IF iter.at <= Len(seq) /\ seq[iter.at] = target
                                THEN target
                                ELSE iter.stale)]
          [] callback[observer].call = "Attach"
                -> [sl   |-> std_list_Attach(sl, observable, target),
                    iter |-> std_list_iterator(
                                IF iter.at = Len(seq) + 1 /\ iter.stale = Null
                                THEN Len(seq) + 2
                                ELSE iter.at,
                                iter.stale)]
          [] OTHER -> [sl |-> sl, iter |-> iter]

\* The body of the loop of NotifyAll on a valid iterator.
std_list_NotifyAll_body(sl, observable, iter, callback) ==
    LET observer == sl[observable][iter.at]
        done     == std_list_Notify(sl, observable, observer, callback,
                                    std_list_iterator(iter.at + 1, Null))
    IN  [sl |-> done.sl, iter |-> done.iter, observer |-> observer]

\* The body of the loop of NotifyAll on an iterator whose element has been
\* erased, when the freed element still reads as it was: the observer it held
\* is notified and ++ leads to the element that followed it.
std_list_NotifyAll_body_stale(sl, observable, iter, callback) ==
    LET done == std_list_Notify(sl, observable, iter.stale, callback,
                                std_list_iterator(iter.at, Null))
    IN  [sl |-> done.sl, iter |-> done.iter, observer |-> iter.stale]

\* observer_iter != observer_list.end()
std_list_at_end(sl, observable, iter) ==
    iter.stale = Null /\ iter.at = Len(sl[observable]) + 1

----------------------------------------------------------------------------
(* The Node tree of btree/ and TransformBinaryTree.  A Node is named by its
   place in the full tree: the root is 1 and the children of n are 2n and
   2n + 1, so that row r holds the nodes 2^r .. 2^(r+1) - 1 from left to
   right. *)

\* Number of rows of the trees that are transformed.
MaxRows == 4

BTreeNodes == 1..(2^MaxRows - 1)

\* &Node::sentinal
sentinal == 2^MaxRows

RECURSIVE place_row(_)
place_row(n) == IF n = 1 THEN 0 ELSE 1 + place_row(n \div 2)

place_column(n) == n - 2^place_row(n)

\* Node::Node(row, column): the row in the upper 16 bits of data, the column
\* in the lower 16 bits; no child and no sibling.
Node(row, column) ==
    [data         |-> ((row % 65536) * 65536) + (column % 65536),
     leftChild    |-> Null,
     rightChild   |-> Null,
     rightSibling |-> Null]

NodeTestValueGetRow(data) == (data \div 65536) % 65536

NodeTestValueGetCol(data) == data % 65536

\* The tree whose nodes are the places in `present`: TestTreeCreate, and the
\* subtrees removed from it.
TestTree(present) ==
    [n \in BTreeNodes |->
        [Node(place_row(n), place_column(n)) EXCEPT
            !.leftChild  = IF n \in present /\ 2 * n \in present THEN 2 * n ELSE Null,
            !.rightChild = IF n \in present /\ 2 * n + 1 \in present THEN 2 * n + 1 ELSE Null]]

\* The sets of places that are a tree: the root, and with a node its parent.
TreeShapes ==
    {present \in SUBSET BTreeNodes :
        /\ 1 \in present
        /\ \A n \in present : n = 1 \/ (n \div 2) \in present}

RECURSIVE FindLeftMostChild(_, _, _)
FindLeftMostChild(bt, node, depth) ==
    IF depth = 0 THEN node
    ELSE IF bt[node].leftChild # Null
    THEN FindLeftMostChild(bt, bt[node].leftChild, depth - 1)
    ELSE IF bt[node].rightChild # Null
    THEN FindLeftMostChild(bt, bt[node].rightChild, depth - 1)
    ELSE Null

\* The loop of FindRightSiblingForChild: `node` and `depth` before a turn,
\* siblingFound being null.
RECURSIVE FindRightSiblingForChild_loop(_, _, _)
FindRightSiblingForChild_loop(bt, node, depth) ==
    IF bt[node].rightSibling = Null THEN Null
    ELSE LET up    == bt[node].rightSibling
             found == IF bt[up].rightChild # Null /\ bt[up].rightChild # node
                      THEN FindLeftMostChild(bt, bt[up].rightChild, depth)
                      ELSE Null
         IN  IF found # Null THEN found
             ELSE FindRightSiblingForChild_loop(bt, up, depth + 1)

FindRightSiblingForChild(bt, node) ==
    LET siblingFound == FindRightSiblingForChild_loop(bt, node, 0)
    IN  IF siblingFound # Null THEN siblingFound ELSE sentinal

\* The loop of TransformBinaryTree: `node` before a turn.
RECURSIVE TransformBinaryTree_loop(_, _)
TransformBinaryTree_loop(bt, node) ==
    IF node = Null THEN bt
    ELSE IF bt[node].leftChild # Null /\ bt[bt[node].leftChild].rightSibling = Null
    THEN TransformBinaryTree_loop(
            [bt EXCEPT ![bt[node].leftChild].rightSibling = node], bt[node].leftChild)
    ELSE IF bt[node].rightChild # Null /\ bt[bt[node].rightChild].rightSibling = Null
    THEN TransformBinaryTree_loop(
            [bt EXCEPT ![bt[node].rightChild].rightSibling = node], bt[node].rightChild)
    ELSE TransformBinaryTree_loop(
            [bt EXCEPT ![node].rightSibling = FindRightSiblingForChild(bt, node)],
            bt[node].rightSibling)

TransformBinaryTree(bt, root) == TransformBinaryTree_loop(bt, root)

----------------------------------------------------------------------------
(* struct gregorian: conversion between seconds since January 1, 1601 and
   calendar date and time.  Months, days of the month and days of the year
   count from 0.  A count of seconds, of 64 bits in the code, is held as full
   days and seconds of the last day, [days |-> d, seconds |-> s] standing for
   d * seconds_in_day + s: the spans the code divides by are full days, so a
   quotient of the count is the quotient of its days.  The counts stay far
   below 2^64. *)

epoch_year == 1601

months_in_year == 12

days_in_non_leap_year == 365

seconds_in_minutes == 60

seconds_in_hour == 60 * seconds_in_minutes

seconds_in_day == 24 * seconds_in_hour

leaps_in_400_years == (400 \div 4) - (400 \div 100) + 1

leaps_in_100_years == (100 \div 4) - 1

days_in_400_years == 400 * days_in_non_leap_year + leaps_in_400_years

days_in_100_years == 100 * days_in_non_leap_year + leaps_in_100_years

days_in_4_years == 4 * days_in_non_leap_year + 1

\* seconds_in_1_years, in days
days_in_1_years == days_in_non_leap_year

\* The count of seconds days * seconds_in_day + seconds.
seconds_count(days, seconds) ==
    [days    |-> days + (seconds \div seconds_in_day),
     seconds |-> seconds % seconds_in_day]

\* No count was returned: the call did not return.
no_seconds == [days |-> -1, seconds |-> 0]

\* enum month: February
February == 1

\* The array days_in_month[months_in_year]: eleven initializers, the twelfth
\* element is zero.
days_in_month == <<31, 28, 30, 30, 31, 30, 31, 31, 31, 30, 31, 0>>

\* A call that did not return: an ASSERT that failed in a build that keeps
\* the ASSERTs.
Fault == -1

\* The builds: ASSERT of project_assert.h stops the program, or is compiled
\* out; in the latter a read beyond days_in_month[] is undefined and gives
\* any byte, of which the least and the greatest are taken.
Builds ==
    {[assert |-> TRUE, beyond |-> 0],
     [assert |-> FALSE, beyond |-> 0],
     [assert |-> FALSE, beyond |-> 255]}

\* gregorian(year, month, day_of_month, hours, minutes, seconds, day_of_year):
\* the members keep the width of their types.
gregorian(year, month, day_of_month, hours, minutes, seconds, day_of_year) ==
    [year         |-> year % 65536,
     month        |-> month % 256,
     day_of_month |-> day_of_month % 256,
     day_of_year  |-> day_of_year % 65536,
     hours        |-> hours % 256,
     minutes      |-> minutes % 256,
     seconds      |-> seconds % 256,
     fault        |-> FALSE]

\* No gregorian was returned: the call did not return.
no_gregorian == [gregorian(0, 0, 0, 0, 0, 0, 0) EXCEPT !.fault = TRUE]

is_leap_year(year) ==
    IF year % 400 = 0 THEN TRUE
    ELSE IF year % 100 = 0 THEN FALSE
    ELSE year % 4 = 0

get_days_in_month(month, year, build) ==
    IF month >= months_in_year
    THEN IF build.assert THEN Fault ELSE build.beyond
    ELSE IF month = February
    THEN (days_in_month[month + 1] + (IF is_leap_year(year) THEN 1 ELSE 0)) % 256
    ELSE days_in_month[month + 1]

leap_years_since_epoch(year, build) ==
    IF build.assert /\ year < epoch_year THEN Fault
    ELSE LET delta_years == (year - epoch_year) % 65536
         IN  ((delta_years \div 4) - (delta_years \div 100) + (delta_years \div 400)) % 65536

\* The loop of get_day_of_year, which increments month and not month_iter:
\* month_iter stays 0 and the loop ends when month, of 8 bits, is 0.  The
\* turns with month from months_in_year to 255 are taken together: each
\* fails the ASSERT of get_days_in_month, or reads beyond days_in_month[].
RECURSIVE get_day_of_year_loop(_, _, _, _)
get_day_of_year_loop(year, month, day_count, build) ==
    IF ~(0 < month) THEN day_count
    ELSE IF month >= months_in_year
    THEN IF get_days_in_month(month, year, build) = Fault
         THEN Fault
         ELSE (day_count + (256 - month) * get_days_in_month(month, year, build)) % 256
    ELSE get_day_of_year_loop(year, month + 1,
                              (day_count + get_days_in_month(month, year, build)) % 256,
                              build)

get_day_of_year(year, month, day_of_month, build) ==
    IF build.assert /\ (\/ year < epoch_year
                        \/ month >= months_in_year
                        \/ day_of_month >= get_days_in_month(month, year, build))
    THEN Fault
    ELSE LET day_count == get_day_of_year_loop(year, month, 0, build)
         IN  IF day_count = Fault THEN Fault
             ELSE (day_count + day_of_month) % 256

\* seconds_since_epoch(greg)
seconds_since_epoch(greg, build) ==
    LET years_since_epoch == (greg.year - epoch_year) % 65536
        leap_year_count   == leap_years_since_epoch(greg.year, build)
        day_of_year       == get_day_of_year(greg.year, greg.month, greg.day_of_month, build)
        days_since_epoch  == years_since_epoch * days_in_non_leap_year
                                + leap_year_count + day_of_year
    IN  IF greg.fault \/ leap_year_count = Fault \/ day_of_year = Fault
        THEN no_seconds
        ELSE seconds_count(days_since_epoch,
                           greg.hours * seconds_in_hour
                              + greg.minutes * seconds_in_minutes
                              + greg.seconds)

\* The loop of to_calendar over the months, and what follows it.
RECURSIVE to_calendar_loop(_, _, _, _, _, _)
to_calendar_loop(year, day_of_year, seconds, month_iter, day_count, build) ==
    IF ~(month_iter < months_in_year)
    THEN IF build.assert THEN no_gregorian ELSE gregorian(0, 0, 0, 0, 0, 0, 0)
    ELSE LET days == get_days_in_month(month_iter, year, build)
         IN  IF day_count >= days
             THEN to_calendar_loop(year, day_of_year, seconds, month_iter + 1,
                                   (day_count - days) % 65536, build)
             ELSE LET hours   == (seconds \div seconds_in_hour) % 256
                      rest    == seconds - hours * seconds_in_hour
                      minutes == (rest \div seconds_in_minutes) % 256
                  IN  gregorian(year, month_iter, day_count, hours, minutes,
                                rest - minutes * seconds_in_minutes, day_of_year)

to_calendar(seconds, build) ==
    IF seconds = no_seconds THEN no_gregorian
    ELSE LET span_400    == seconds.days \div days_in_400_years
             after_400   == seconds.days - span_400 * days_in_400_years
             span_100    == after_400 \div days_in_100_years
             after_100   == after_400 - span_100 * days_in_100_years
             span_4      == after_100 \div days_in_4_years
             after_4     == after_100 - span_4 * days_in_4_years
             span_1      == after_4 \div days_in_1_years
             after_1     == after_4 - span_1 * days_in_1_years
             year_span   == (span_400 * 400 + span_100 * 100 + span_4 * 4 + span_1) % 65536
             year        == (year_span + epoch_year) % 65536
             day_of_year == after_1 % 65536
         IN  to_calendar_loop(year, day_of_year, seconds.seconds,
                              0, day_of_year, build)

----------------------------------------------------------------------------
(* The state machine: one tree, driven through its public interface *)

\* The lists are constructed empty and the caller's list nodes unlinked; list
\* node n holds the data n.  The data_ of a sentinel is left uninitialized by
\* list_node() and is never read.
ListInit ==
    /\ list_nodes = [n \in ListNodes \cup Sentinels |->
                        IF n \in ListNodes THEN list_node(n, n) ELSE list_node(n, Null)]
    /\ list_last = [op |-> "ctor"]

\* No call has been made on an Observable.
NotNotifying ==
    [observable  |-> Null,
     callback    |-> [o \in Observers |-> [call |-> "none", observer |-> Null]],
     linked_list |-> [running |-> FALSE, iter |-> Null, began |-> {},
                      notified |-> << >>, fault |-> FALSE],
     std_list    |-> [running |-> FALSE, iter |-> std_list_iterator(1, Null),
                      began |-> {}, notified |-> << >>, fault |-> FALSE]]

\* The Observables are constructed with no observer and the Observers
\* unattached: Observer() constructs list_node_(this).
ObserverInit ==
    /\ observer_nodes = [n \in Observers \cup Observables |->
                            IF n \in Observers THEN list_node(n, n) ELSE list_node(n, Null)]
    /\ observer_list = [observable \in Observables |-> << >>]
    /\ attached = [implementation \in {"linked_list", "std_list"} |->
                        [observable \in Observables |-> {}]]
    /\ notifying = NotNotifying

\* No tree of Nodes has been built: the Nodes have no child.
BTreeInit ==
    /\ btree = TestTree({})
    /\ transformed = FALSE

\* No gregorian conversion is made.
GregorianInit == conversion = [op |-> "none"]

\* The caller constructs its nodes unlinked.  Node n holds the value n, except
\* the last node, which holds any value: its own, or a duplicate of another
\* node's value.
Init ==
    /\ nodes \in {ns \in [Nodes -> {tree_node(d) : d \in Values}] :
                    \A n \in Nodes : n < NumNodes => ns[n].data = n}
    /\ head_node = Null
    /\ node_count = 0
    /\ live = {}
    /\ erased = {}
    /\ last = [op |-> "ctor", node |-> Null, case |-> "none"]
    /\ ops = 0
    /\ ListInit
    /\ ObserverInit
    /\ BTreeInit
    /\ GregorianInit

\* One more call is made while the run is shorter than MaxOps and no call
\* has faulted.
step ==
    /\ ops < MaxOps
    /\ last.case # "fault"
    /\ ops' = ops + 1
    /\ UNCHANGED not_tree_vars

\* The effect of binary_tree::insert(node) on the tree, and on the caller's
\* view of it.
insert_call(node) ==
    LET t == binary_tree_insert(nodes, head_node, node_count, node)
    IN  /\ nodes' = t.nodes
        /\ head_node' = t.head_node
        /\ node_count' = t.node_count
        /\ live' = IF t.threw THEN live ELSE live \cup {nodes[node].data}
        /\ erased' = IF t.threw THEN erased ELSE erased \ {nodes[node].data}
        /\ last' = [op |-> "insert", node |-> node,
                    case |-> IF t.threw THEN "threw"
                             ELSE IF head_node # Null THEN "child" ELSE "head"]

\* The effect of binary_tree::erase(iter), iter.pos == pos.
erase_call(pos) ==
    LET t == binary_tree_erase(nodes, head_node, node_count, pos)
    IN  /\ nodes' = t.nodes
        /\ head_node' = t.head_node
        /\ node_count' = t.node_count
        /\ live' = live \ {nodes[pos].data}
        /\ erased' = erased \cup {nodes[pos].data}
        /\ last' = [op |-> "erase", node |-> pos, case |-> remove_case(nodes, pos)]

\* binary_tree::find(value): what `last` can hold after the call.  With
\* head_node == nullptr the call head_node->find(value) is a member call
\* through a null pointer, which is undefined: a build that keeps the test of
\* `node` in tree_node::find returns end(), a build that drops it (`this` is
\* never null in a defined program) reads node->data and faults.
find_outcomes(value) ==
    IF head_node # Null
    THEN LET pos == find(nodes, head_node, value)
         IN  {[op |-> "find", node |-> pos, value |-> value,
               case |-> IF pos = Null THEN "end" ELSE "found"]}
    ELSE {[op |-> "find", node |-> Null, value |-> value, case |-> c] :
             c \in {"end", "fault"}}

\* The effect of binary_tree::find(value): nothing of the tree changes.
find_call(value) ==
    /\ last' \in find_outcomes(value)
    /\ UNCHANGED <<nodes, head_node, node_count, live, erased>>

\* Fault injection: binary_tree::insert with `node_count += 1` moved before
\* the call of head_node->insert, so that a throwing insert is counted.
insert_counts_first(node) ==
    /\ step
    /\ node \notin reachable(nodes, head_node)
    /\ LET n0 == [nodes EXCEPT ![node].parent = Null,
                               ![node].left   = Null,
                               ![node].right  = Null]
           r  == IF head_node # Null
                 THEN tree_node_insert(n0, head_node, node)
                 ELSE [ns |-> n0, threw |-> FALSE]
       IN  /\ nodes' = r.ns
           /\ head_node' = IF head_node # Null THEN head_node ELSE node
           /\ node_count' = node_count + 1
           /\ live' = IF r.threw THEN live ELSE live \cup {nodes[node].data}
           /\ erased' = IF r.threw THEN erased ELSE erased \ {nodes[node].data}
           /\ last' = [op |-> "insert", node |-> node,
                       case |-> IF r.threw THEN "threw"
                                ELSE IF head_node # Null THEN "child" ELSE "head"]

\* binary_tree::insert(node), for a node that is not in the tree.
insert(node) ==
    /\ step
    /\ node \notin reachable(nodes, head_node)
    /\ insert_call(node)

\* binary_tree::insert(node), for a node that is still linked in the tree.
insert_linked(node) ==
    /\ step
    /\ node \in reachable(nodes, head_node)
    /\ insert_call(node)

\* Fault injection: binary_tree::erase without `node_count -= 1`.
erase_keeps_count(pos) ==
    /\ step
    /\ pos \in reachable(nodes, head_node)
    /\ node_count > 0
    /\ nodes' = remove(nodes, pos)
    /\ node_count' = node_count
    /\ head_node' = head_node
    /\ live' = live \ {nodes[pos].data}
    /\ erased' = erased \cup {nodes[pos].data}
    /\ last' = [op |-> "erase", node |-> pos, case |-> remove_case(nodes, pos)]

\* binary_tree::erase(iter), for an iterator of this tree that refers to a
\* node (iter.pos == pos), on a tree whose size() is not 0.
erase(pos) ==
    /\ step
    /\ pos \in reachable(nodes, head_node)
    /\ node_count > 0
    /\ erase_call(pos)

\* binary_tree::find(value).
find_value(value) ==
    /\ step
    /\ find_call(value)

clear ==
    /\ step
    /\ node_count' = 0
    /\ head_node' = Null
    /\ live' = {}
    /\ erased' = {}
    /\ last' = [op |-> "clear", node |-> Null, case |-> "none"]
    /\ UNCHANGED nodes

Next ==
    \/ \E node \in Nodes : insert(node)
    \/ \E pos \in Nodes : erase(pos)
    \/ clear

Spec == Init /\ [][Next]_vars

\* Runs that only insert, each time a value the tree does not hold yet.
NextBuild ==
    \E node \in Nodes : nodes[node].data \notin live /\ insert(node)

SpecBuild == Init /\ [][NextBuild]_vars

\* Runs in which the caller inserts pairwise distinct values, erases values
\* it has inserted (through the iterator find returns for them), and clears.
NextSize ==
    \/ \E node \in Nodes : nodes[node].data \notin live /\ insert(node)
    \/ \E pos \in Nodes : nodes[pos].data \in live /\ erase(pos)
    \/ clear

SpecSize == Init /\ [][NextSize]_vars

\* Runs of inserts and clears: nodes of a cleared tree are inserted again.
NextClear ==
    \/ \E node \in Nodes : insert(node)
    \/ clear

SpecClear == Init /\ [][NextClear]_vars

\* Runs in which the caller also looks values up.
NextFind ==
    \/ Next
    \/ \E value \in Values : find_value(value)

SpecFind == Init /\ [][NextFind]_vars

\* Runs in which the caller also inserts nodes that are still linked in the
\* tree: a node it inserts a second time, or the node object of an iterator
\* it has erased and that remove() left in the tree.
NextLinked ==
    \/ Next
    \/ \E node \in Nodes : insert_linked(node)

SpecLinked == Init /\ [][NextLinked]_vars

----------------------------------------------------------------------------
(* The tree of the class comment of binary_tree: nodes A .. S *)

\* The values of the nodes A, B, C, D, E, H, K, F, I, J, M, G, L, N, O, P, Q,
\* R, S, in the order in which the class comment inserts them.
ScenarioData ==
    <<100, 50, 200, 25, 75, 10, 60, 150, 140, 130,
      135, 300, 400, 350, 275, 375, 380, 385, 80>>

\* The values erased after the tree is made: B, the node of the example of
\* tree_node::remove(), then S.
ScenarioErased == <<50, 80>>

\* The values looked up: every value of the tree, and one it never holds.
ScenarioQueries == {ScenarioData[i] : i \in DOMAIN ScenarioData} \cup {10001}

InitScenario ==
    /\ nodes = [n \in DOMAIN ScenarioData |-> tree_node(ScenarioData[n])]
    /\ head_node = Null
    /\ node_count = 0
    /\ live = {}
    /\ erased = {}
    /\ last = [op |-> "ctor", node |-> Null, case |-> "none"]
    /\ ops = 0
    /\ ListInit
    /\ ObserverInit
    /\ BTreeInit
    /\ GregorianInit

\* The next insert of the class comment; ops counts the inserts and erases
\* made so far.
scenario_insert ==
    /\ last.case # "fault"
    /\ ops < Len(ScenarioData)
    /\ insert_call(ops + 1)
    /\ ops' = ops + 1
    /\ UNCHANGED not_tree_vars

\* erase(find(value)) for the next value to erase, once the tree is made.
scenario_erase ==
    /\ last.case # "fault"
    /\ ops >= Len(ScenarioData)
    /\ ops < Len(ScenarioData) + Len(ScenarioErased)
    /\ LET pos == find(nodes, head_node, ScenarioErased[ops - Len(ScenarioData) + 1])
       IN  /\ pos # Null
           /\ erase_call(pos)
    /\ ops' = ops + 1
    /\ UNCHANGED not_tree_vars

\* find(value), at any point of the scenario.
scenario_find(value) ==
    /\ last.case # "fault"
    /\ find_call(value)
    /\ UNCHANGED ops
    /\ UNCHANGED not_tree_vars

NextScenario ==
    \/ scenario_insert
    \/ scenario_erase
    \/ \E value \in ScenarioQueries : scenario_find(value)

SpecScenario == InitScenario /\ [][NextScenario]_vars

----------------------------------------------------------------------------
(* The state machine of the lists: NumLists lists and NumListNodes nodes,
   driven through the public interface of linked_list *)

\* No tree is used: the tree's variables stay as constructed.
InitList ==
    /\ nodes = [n \in Nodes |-> tree_node(n)]
    /\ head_node = Null
    /\ node_count = 0
    /\ live = {}
    /\ erased = {}
    /\ last = [op |-> "ctor", node |-> Null, case |-> "none"]
    /\ ops = 0
    /\ ListInit
    /\ ObserverInit
    /\ BTreeInit
    /\ GregorianInit

\* The positions of a list: its nodes and end().
positions(ls, list) ==
    {traversal(ls, list)[i] : i \in DOMAIN traversal(ls, list)} \cup {list_end(ls, list)}

\* [first, last) is a forward range: operator++ gets from first to last over
\* nodes of the caller only (never over a sentinel).
is_range(ls, first, last_node) ==
    LET r == walk(ls, first, last_node, Cardinality(DOMAIN ls))
    IN  /\ \A i \in DOMAIN r : r[i] \in ListNodes
        /\ first # last_node => ls[r[Len(r)]].next_ = last_node

\* The nodes of the forward range [first, last).
range_nodes(ls, first, last_node) ==
    LET r == walk(ls, first, last_node, Cardinality(DOMAIN ls))
    IN  {r[i] : i \in DOMAIN r}

\* The list whose traversal holds the node, Null for a node in no list.
owner(ls, node) ==
    IF \E list \in Sentinels : node \in positions(ls, list)
    THEN CHOOSE list \in Sentinels : node \in positions(ls, list)
    ELSE Null

\* The pushes made on `list` by the same member function `op` since the list
\* was empty, all of them of unattached nodes; << >> when the list was not
\* built that way.
pushed(op, list, node) ==
    IF list_nodes[node].next_ # node THEN << >>
    ELSE IF list_empty(list_nodes, list) THEN <<node>>
    ELSE IF list_last.op = op /\ list_last.list = list /\ list_last.run # << >>
    THEN Append(list_last.run, node)
    ELSE << >>

\* The traversal of `list` before the erase that a push of `node` on `list`
\* follows directly (erase(it) then push(it), as the test does); << >> when
\* the push does not follow an erase of that node from that list.
undone(list, node) ==
    IF list_last.op = "erase" /\ list_last.list = list /\ list_last.pos = node
    THEN list_last.was
    ELSE << >>

\* A run ends with a call insert(pos, *pos): it leaves the list of pos no
\* longer doubly-linked, and what later calls do with such a list is not
\* modelled.
list_step == ~(list_last.op = "insert" /\ list_last.node = list_last.pos)

push_front(list, node) ==
    /\ list_step
    /\ list_nodes' = insert_after(list_nodes, list, node)
    /\ list_last' = [op |-> "push_front", list |-> list, node |-> node,
                     run |-> pushed("push_front", list, node),
                     undoes |-> undone(list, node)]
    /\ UNCHANGED not_list_vars

push_back(list, node) ==
    /\ list_step
    /\ list_nodes' = insert_before(list_nodes, list, node)
    /\ list_last' = [op |-> "push_back", list |-> list, node |-> node,
                     run |-> pushed("push_back", list, node),
                     undoes |-> undone(list, node)]
    /\ UNCHANGED not_list_vars

pop_front(list) ==
    /\ list_step
    /\ list_nodes' = linked_list_pop_front(list_nodes, list)
    /\ list_last' = [op |-> "pop_front", list |-> list,
                     was |-> traversal(list_nodes, list)]
    /\ UNCHANGED not_list_vars

pop_back(list) ==
    /\ list_step
    /\ list_nodes' = linked_list_pop_back(list_nodes, list)
    /\ list_last' = [op |-> "pop_back", list |-> list,
                     was |-> traversal(list_nodes, list)]
    /\ UNCHANGED not_list_vars

\* The effect of insert(pos, node): pos.node_->insert_before(node), and the
\* iterator returned refers to node.
list_insert_call(list, pos, node) ==
    /\ list_step
    /\ list_nodes' = insert_before(list_nodes, pos, node)
    /\ list_last' = [op |-> "insert", list |-> list, pos |-> pos, node |-> node,
                     ret |-> node]
    /\ UNCHANGED not_list_vars

\* insert(pos, node) for a position pos of the list and a node of the caller
\* other than the one at pos, unattached or linked in any list.
list_insert(list, pos, node) ==
    /\ pos \in positions(list_nodes, list)
    /\ node # pos
    /\ list_insert_call(list, pos, node)

\* insert(pos, *pos): the node to insert is the node at pos.
list_insert_self(list, pos) ==
    /\ pos \in positions(list_nodes, list)
    /\ pos # list_end(list_nodes, list)
    /\ list_insert_call(list, pos, pos)

\* insert(pos, first, last) for a position pos of the list that is not in
\* the forward range [first, last); the range may be empty.
list_insert_range(list, pos, first, last_node) ==
    /\ list_step
    /\ pos \in positions(list_nodes, list)
    /\ is_range(list_nodes, first, last_node)
    /\ pos \notin range_nodes(list_nodes, first, last_node)
    /\ LET r == linked_list_insert_range(list_nodes, pos, first, last_node)
       IN  /\ list_nodes' = r.ls
           /\ list_last' = [op |-> "insert_range", list |-> list, pos |-> pos,
                            first |-> first, last_node |-> last_node,
                            src |-> owner(list_nodes, first), ret |-> r.ret]
    /\ UNCHANGED not_list_vars

\* erase(pos) for a position pos != end() of the list.
list_erase(list, pos) ==
    /\ list_step
    /\ pos \in positions(list_nodes, list)
    /\ pos # list_end(list_nodes, list)
    /\ LET r == remove_forward(list_nodes, pos)
       IN  /\ list_nodes' = r.ls
           /\ list_last' = [op |-> "erase", list |-> list, pos |-> pos,
                            ret |-> r.next, was |-> traversal(list_nodes, list)]
    /\ UNCHANGED not_list_vars

\* Every node of every list, and every sentinel, is the prev_ of its next_
\* and the next_ of its prev_.
doubly_linked(ls) ==
    \A list \in Sentinels : \A n \in positions(ls, list) :
        /\ ls[ls[n].next_].prev_ = n
        /\ ls[ls[n].prev_].next_ = n

NextList ==
    \/ \E list \in Sentinels, node \in ListNodes : push_front(list, node)
    \/ \E list \in Sentinels, node \in ListNodes : push_back(list, node)
    \/ \E list \in Sentinels : pop_front(list)
    \/ \E list \in Sentinels : pop_back(list)
    \/ \E list \in Sentinels : \E pos \in positions(list_nodes, list) :
          \E node \in ListNodes : list_insert(list, pos, node)
    \/ \E first, last_node \in ListNodes \cup Sentinels :
          /\ is_range(list_nodes, first, last_node)
          /\ \E list \in Sentinels : \E pos \in positions(list_nodes, list) :
                list_insert_range(list, pos, first, last_node)
    \/ \E list \in Sentinels : \E pos \in positions(list_nodes, list) :
          list_erase(list, pos)

SpecList == InitList /\ [][NextList]_vars

\* Runs in which insert(pos, node) is also called with the node at pos.
NextListSelf ==
    \/ NextList
    \/ \E list \in Sentinels : \E pos \in positions(list_nodes, list) :
          list_insert_self(list, pos)

SpecListSelf == InitList /\ [][NextListSelf]_vars

----------------------------------------------------------------------------
(* The state machine of the Observables: the same calls are made on the
   linked_list implementation and on the std::list implementation, side by
   side.  NotifyAll is followed one turn of its loop at a time, so that what
   a Notify callback does to the observer list is seen by the rest of the
   loop. *)

InitObserver == InitList

\* No NotifyAll call is in progress: calls are made from outside a callback.
observer_idle ==
    /\ ~notifying.linked_list.running
    /\ ~notifying.std_list.running

\* The caller's view after a call `call` made on `observable`.
heard(view, observable, call) ==
    CASE call.call = "Attach" -> [view EXCEPT ![observable] = @ \cup {call.observer}]
      [] call.call = "Detach" -> [view EXCEPT ![observable] = @ \ {call.observer}]
      [] OTHER -> view

\* Both implementations hold the same observers in the same order.  Calls
\* from outside a callback are followed while they do; once they differ, only
\* NotifyAll is followed.
side_by_side ==
    \A observable \in Observables :
        traversal(observer_nodes, observable) = observer_list[observable]

Attach_call(observable, observer) ==
    /\ observer_idle
    /\ side_by_side
    /\ observer_nodes' = linked_list_Attach(observer_nodes, observable, observer)
    /\ observer_list' = std_list_Attach(observer_list, observable, observer)
    /\ attached' = [i \in DOMAIN attached |->
                      heard(attached[i], observable,
                            [call |-> "Attach", observer |-> observer])]
    /\ notifying' = NotNotifying
    /\ UNCHANGED not_observer_vars

\* Attach of an observer that is attached to no Observable.
Attach(observable, observer) ==
    /\ \A i \in DOMAIN attached : \A o \in Observables : observer \notin attached[i][o]
    /\ Attach_call(observable, observer)

\* Attach of an observer that is attached already, to this Observable or to
\* another one.
Attach_again(observable, observer) ==
    /\ \E i \in DOMAIN attached : \E o \in Observables : observer \in attached[i][o]
    /\ Len(observer_list[observable]) < MaxAttached
    /\ Attach_call(observable, observer)

Detach_call(observable, observer) ==
    /\ observer_idle
    /\ side_by_side
    /\ observer_nodes' = linked_list_Detach(observer_nodes, observable, observer)
    /\ observer_list' = std_list_Detach(observer_list, observable, observer)
    /\ attached' = [i \in DOMAIN attached |->
                      heard(attached[i], observable,
                            [call |-> "Detach", observer |-> observer])]
    /\ notifying' = NotNotifying
    /\ UNCHANGED not_observer_vars

\* Detach of an observer from the Observable it is attached to.
Detach(observable, observer) ==
    /\ \A i \in DOMAIN attached : observer \in attached[i][observable]
    /\ Detach_call(observable, observer)

\* Detach of an observer from an Observable it is not attached to.
Detach_unattached(observable, observer) ==
    /\ \E i \in DOMAIN attached : observer \notin attached[i][observable]
    /\ Detach_call(observable, observer)

\* NotifyAll(notification) up to the first test of its loop; `callback` is
\* what the Notify of each observer does with this notification.
NotifyAll(observable, callback) ==
    /\ observer_idle
    /\ notifying' =
          [observable  |-> observable,
           callback    |-> callback,
           linked_list |-> [running  |-> list_begin(observer_nodes, observable) # observable,
                            iter     |-> list_begin(observer_nodes, observable),
                            began    |-> attached.linked_list[observable],
                            notified |-> << >>,
                            fault    |-> FALSE],
           std_list    |-> [running  |-> observer_list[observable] # << >>,
                            iter     |-> std_list_iterator(1, Null),
                            began    |-> attached.std_list[observable],
                            notified |-> << >>,
                            fault    |-> FALSE]]
    /\ UNCHANGED <<observer_nodes, observer_list, attached>>
    /\ UNCHANGED not_observer_vars

\* One turn of the loop of NotifyAll over the linked_list, and the test that
\* follows it.  An iterator on the sentinel of another list refers to no
\* observer: the data_ of a sentinel is uninitialized.
linked_list_turn ==
    LET n    == notifying
        body == linked_list_NotifyAll_body(observer_nodes, n.observable,
                                           n.linked_list.iter, n.callback)
    IN  IF n.linked_list.iter \in Observables
        THEN [ls    |-> observer_nodes,
              state |-> [n.linked_list EXCEPT !.running = FALSE, !.fault = TRUE],
              call  |-> [call |-> "none", observer |-> Null]]
        ELSE [ls    |-> body.ls,
              state |-> [running  |-> body.iter # n.observable,
                         iter     |-> body.iter,
                         began    |-> n.linked_list.began,
                         notified |-> Append(n.linked_list.notified, body.observer),
                         fault    |-> FALSE],
              call  |-> n.callback[body.observer]]

\* One turn of the loop of NotifyAll over the std::list, and the test that
\* follows it.  Reading an iterator whose element has been erased is
\* undefined: the freed element reads as it was ("stale"), or the read
\* faults ("fault").
std_list_turn(outcome) ==
    LET n    == notifying
        body == IF n.std_list.iter.stale = Null
                THEN std_list_NotifyAll_body(observer_list, n.observable,
                                             n.std_list.iter, n.callback)
                ELSE std_list_NotifyAll_body_stale(observer_list, n.observable,
                                                   n.std_list.iter, n.callback)
    IN  IF n.std_list.iter.stale # Null /\ outcome = "fault"
        THEN [sl    |-> observer_list,
              state |-> [n.std_list EXCEPT !.running = FALSE, !.fault = TRUE],
              call  |-> [call |-> "none", observer |-> Null]]
        ELSE [sl    |-> body.sl,
              state |-> [running  |-> ~std_list_at_end(body.sl, n.observable, body.iter),
                         iter     |-> body.iter,
                         began    |-> n.std_list.began,
                         notified |-> Append(n.std_list.notified, body.observer),
                         fault    |-> FALSE],
              call  |-> n.callback[body.observer]]

\* The next turn of the loop of NotifyAll, in each implementation that has
\* not returned.  A call that made MaxNotified Notify calls is not followed
\* further.  The callbacks are forgotten when the call has returned.
NotifyAll_loop ==
    LET n    == notifying
        ll   == n.linked_list.running /\ Len(n.linked_list.notified) < MaxNotified
        std  == n.std_list.running /\ Len(n.std_list.notified) < MaxNotified
    IN  /\ ll \/ std
        /\ \E outcome \in {"stale", "fault"} :
              /\ outcome = "fault" => std /\ n.std_list.iter.stale # Null
              /\ observer_nodes' = IF ll THEN linked_list_turn.ls ELSE observer_nodes
              /\ observer_list' = IF std THEN std_list_turn(outcome).sl ELSE observer_list
              /\ attached' =
                    [linked_list |-> IF ll
                                     THEN heard(attached.linked_list, n.observable,
                                                linked_list_turn.call)
                                     ELSE attached.linked_list,
                     std_list    |-> IF std
                                     THEN heard(attached.std_list, n.observable,
                                                std_list_turn(outcome).call)
                                     ELSE attached.std_list]
              /\ notifying' =
                    LET a == IF ll THEN linked_list_turn.state ELSE n.linked_list
                        b == IF std THEN std_list_turn(outcome).state ELSE n.std_list
                    IN  [observable  |-> n.observable,
                         callback    |-> IF a.running \/ b.running
                                         THEN n.callback
                                         ELSE NotNotifying.callback,
                         linked_list |-> a,
                         std_list    |-> b]
        /\ UNCHANGED not_observer_vars

\* Callbacks as in TestObserver::Notify: an observer does nothing, or
\* detaches itself.
SelfDetaching ==
    {callback \in [Observers -> Calls] :
        \A o \in Observers :
            \/ callback[o].call = "none"
            \/ callback[o].call = "Detach" /\ callback[o].observer = o}

\* Callbacks that do nothing, or detach an observer that is attached to the
\* Observable when NotifyAll is called.
Detaching(observable) ==
    {callback \in [Observers -> Calls] :
        \A o \in Observers :
            \/ callback[o].call = "none"
            \/ /\ callback[o].call = "Detach"
               /\ \A i \in DOMAIN attached : callback[o].observer \in attached[i][observable]}

\* Observers are attached when attached to no Observable, detached from the
\* Observable they are attached to, and detach themselves in Notify.
NextObserver ==
    \/ \E observable \in Observables, observer \in Observers : Attach(observable, observer)
    \/ \E observable \in Observables, observer \in Observers : Detach(observable, observer)
    \/ \E observable \in Observables, callback \in SelfDetaching :
          NotifyAll(observable, callback)
    \/ NotifyAll_loop

SpecObserver == InitObserver /\ [][NextObserver]_vars

\* Runs in which a Notify callback may detach any observer.
NextObserverDetach ==
    \/ \E observable \in Observables, observer \in Observers : Attach(observable, observer)
    \/ \E observable \in Observables, observer \in Observers : Detach(observable, observer)
    \/ \E observable \in Observables : \E callback \in Detaching(observable) :
          NotifyAll(observable, callback)
    \/ NotifyAll_loop

SpecObserverDetach == InitObserver /\ [][NextObserverDetach]_vars

\* Runs in which Attach and Detach are called for any observer.
NextObserverAny ==
    \/ NextObserver
    \/ \E observable \in Observables, observer \in Observers :
          Attach_again(observable, observer)

SpecObserverAny == InitObserver /\ [][NextObserverAny]_vars

\* Runs in which Detach is also called on an Observable for an observer that
\* is not attached to it.
NextObserverScope ==
    \/ NextObserver
    \/ \E observable \in Observables, observer \in Observers :
          Detach_unattached(observable, observer)

SpecObserverScope == InitObserver /\ [][NextObserverScope]_vars

\* NotifyAll(notification) of the linked_list implementation alone, up to the
\* first test of its loop, on observer lists built by calls from outside a
\* callback.  With no observer the call returns at that test and the
\* callbacks are never used.
linked_list_NotifyAll(observable, callback) ==
    /\ observer_idle
    /\ side_by_side
    /\ notifying' =
          IF list_begin(observer_nodes, observable) = observable
          THEN NotNotifying
          ELSE [NotNotifying EXCEPT
                   !.observable  = observable,
                   !.callback    = callback,
                   !.linked_list =
                       [running  |-> TRUE,
                        iter     |-> list_begin(observer_nodes, observable),
                        began    |-> attached.linked_list[observable],
                        notified |-> << >>,
                        fault    |-> FALSE]]
    /\ UNCHANGED <<observer_nodes, observer_list, attached>>
    /\ UNCHANGED not_observer_vars

\* The next turn of the loop of that call, however many turns it has made.
\* Of the Notify calls made only the last one of an odd number of calls is
\* kept, so that every turn is a step even when it changes no list.
linked_list_NotifyAll_loop ==
    /\ notifying.linked_list.running
    /\ observer_nodes' = linked_list_turn.ls
    /\ attached' = [attached EXCEPT
                       !.linked_list = heard(@, notifying.observable,
                                             linked_list_turn.call)]
    /\ notifying' =
          LET a == [linked_list_turn.state EXCEPT
                       !.notified = IF notifying.linked_list.notified = << >>
                                    THEN <<@[Len(@)]>>
                                    ELSE << >>]
          IN  IF a.running
              THEN [notifying EXCEPT !.linked_list = a]
              ELSE [NotNotifying EXCEPT !.linked_list.fault = a.fault]
    /\ UNCHANGED observer_list
    /\ UNCHANGED not_observer_vars

\* Runs in which the Notify of each observer may call Attach or Detach of any
\* observer on the Observable that notifies it.  The loop of NotifyAll is
\* sequential code: a call that has not returned takes its next turn.
NextObserverLoop ==
    \/ \E observable \in Observables, observer \in Observers : Attach(observable, observer)
    \/ \E observable \in Observables, observer \in Observers : Detach(observable, observer)
    \/ \E observable \in Observables, callback \in [Observers -> Calls] :
          linked_list_NotifyAll(observable, callback)
    \/ linked_list_NotifyAll_loop

SpecObserverLoop ==
    InitObserver /\ [][NextObserverLoop]_vars /\ WF_vars(linked_list_NotifyAll_loop)

----------------------------------------------------------------------------
(* The state machine of the Node tree: a tree is built and
   TransformBinaryTree is called on its root. *)

\* Any tree of at most MaxRows rows, all rightSibling null.
InitSibling ==
    /\ nodes = [n \in Nodes |-> tree_node(n)]
    /\ head_node = Null
    /\ node_count = 0
    /\ live = {}
    /\ erased = {}
    /\ last = [op |-> "ctor", node |-> Null, case |-> "none"]
    /\ ops = 0
    /\ ListInit
    /\ ObserverInit
    /\ btree \in {TestTree(present) : present \in TreeShapes}
    /\ transformed = FALSE
    /\ GregorianInit

Transform ==
    /\ ~transformed
    /\ btree' = TransformBinaryTree(btree, 1)
    /\ transformed' = TRUE
    /\ UNCHANGED not_btree_vars

NextSibling == Transform

SpecSibling == InitSibling /\ [][NextSibling]_vars

----------------------------------------------------------------------------
(* The state machine of the gregorian conversions: a count of seconds is
   converted to the calendar and back, and a calendar date and time to
   seconds and back. *)

\* Number of days after the epoch, from the epoch on, that are converted: the
\* years 1601 .. 1604, the last one a leap year, and the first days of 1605.
MaxDays == 1470

\* The days converted: besides the first MaxDays, those around the end of
\* the first 100 and of the first 400 years.
Days ==
    0..MaxDays
        \cup {days_in_100_years + d : d \in {-2, -1, 0, 1}}
        \cup {days_in_400_years + d : d \in {-2, -1, 0, 1}}

\* The times of the day converted: <<hours, minutes, seconds>>.
Times == {<<0, 0, 0>>, <<1, 1, 1>>, <<23, 59, 59>>}

Years == {epoch_year, 1604, 1605, 1700, 1701, 2000, 2001}

\* The calendar dates and times converted: valid as get_day_of_year asserts.
Calendars ==
    {gregorian(y, m, d, t[1], t[2], t[3], 65535) :
        y \in Years, m \in 0..(months_in_year - 1), d \in 0..30, t \in Times}

InitGregorian ==
    /\ nodes = [n \in Nodes |-> tree_node(n)]
    /\ head_node = Null
    /\ node_count = 0
    /\ live = {}
    /\ erased = {}
    /\ last = [op |-> "ctor", node |-> Null, case |-> "none"]
    /\ ops = 0
    /\ ListInit
    /\ ObserverInit
    /\ BTreeInit
    /\ \/ \E day \in Days, t \in Times :
             conversion = [op |-> "given seconds",
                           seconds |-> seconds_count(day,
                                          t[1] * seconds_in_hour
                                             + t[2] * seconds_in_minutes + t[3])]
       \/ \E g \in Calendars :
             /\ g.day_of_month < get_days_in_month(g.month, g.year, [assert |-> TRUE, beyond |-> 0])
             /\ conversion = [op |-> "given calendar", calendar |-> g]

\* seconds_since_epoch(to_calendar(s))
seconds_round_trip ==
    /\ conversion.op = "given seconds"
    /\ \E build \in Builds :
          conversion' = [op       |-> "seconds",
                         seconds  |-> conversion.seconds,
                         calendar |-> to_calendar(conversion.seconds, build),
                         back     |-> seconds_since_epoch(
                                         to_calendar(conversion.seconds, build), build)]
    /\ UNCHANGED not_gregorian_vars

\* to_calendar(seconds_since_epoch(g))
calendar_round_trip ==
    /\ conversion.op = "given calendar"
    /\ \E build \in Builds :
          conversion' = [op       |-> "calendar",
                         calendar |-> conversion.calendar,
                         seconds  |-> seconds_since_epoch(conversion.calendar, build),
                         back     |-> to_calendar(
                                         seconds_since_epoch(conversion.calendar, build),
                                         build)]
    /\ UNCHANGED not_gregorian_vars

NextGregorian ==
    \/ seconds_round_trip
    \/ calendar_round_trip

SpecGregorian == InitGregorian /\ [][NextGregorian]_vars

----------------------------------------------------------------------------
(* Vocabulary of the properties *)

\* The members of the set S of numbers, in ascending order.
RECURSIVE ascending(_)
ascending(S) ==
    IF S = {}
    THEN << >>
    ELSE LET m == CHOOSE x \in S : \A y \in S : x <= y
         IN  <<m>> \o ascending(S \ {m})

\* The members of the set S of numbers, in descending order.
RECURSIVE descending(_)
descending(S) ==
    IF S = {}
    THEN << >>
    ELSE LET m == CHOOSE x \in S : \A y \in S : x >= y
         IN  <<m>> \o descending(S \ {m})

strictly_ascending(seq) == \A i \in 1..(Len(seq) - 1) : seq[i] < seq[i + 1]

\* The sequence seq with every occurrence of v left out.
without(seq, v) == SelectSeq(seq, LAMBDA x : x # v)

\* The search-tree ordering of the nodes reachable from head.
bst_ordered(ns, head) ==
    \A n \in reachable(ns, head) :
        /\ \A m \in subtree(ns, ns[n].left, pool_size(ns)) : ns[m].data < ns[n].data
        /\ \A m \in subtree(ns, ns[n].right, pool_size(ns)) : ns[m].data > ns[n].data

\* The nodes of the tree.
in_tree == reachable(nodes, head_node)

\* The last call was erase.
erased_last == last.op = "erase"

----------------------------------------------------------------------------
(* C1: in a tree built from the empty tree by inserts of pairwise distinct
   values, forward iteration from begin() to end() yields exactly the
   inserted values in strictly ascending order, and reverse iteration from
   rbegin() to rend() yields them in strictly descending order.
   Checked under SpecBuild. *)
C1_OrderedTraversal ==
    /\ forward(nodes, head_node) = ascending(live)
    /\ reverse(nodes, head_node) = descending(live)

\* All nodes of the pool are in the tree, and some node has two children.
C1_Witness ==
    /\ Cardinality(live) = NumNodes
    /\ \E n \in in_tree : nodes[n].left # Null /\ nodes[n].right # Null

(* C2: erase(it) removes exactly the value under the iterator: the forward
   traversal after the call is the forward traversal before it without that
   value. *)
C2_EraseRemovesExactlyTheValue ==
    [][last'.op = "erase" =>
          forward(nodes', head_node')
            = without(forward(nodes, head_node), nodes[last'.node].data)]_vars

(* C3: find(v) returns an iterator to v for every value v inserted and not
   erased since, and end() for every value erased and not inserted again. *)
C3_FindRoundTrip ==
    /\ \A v \in live :
          /\ find(nodes, head_node, v) # Null
          /\ nodes[find(nodes, head_node, v)].data = v
    /\ \A v \in erased : find(nodes, head_node, v) = Null

(* C4: size() equals the number of nodes reachable from head_node by
   left/right links. *)
C4_CountIsReachable == size = Cardinality(in_tree)

(* C5: head_node is absent exactly when node_count is 0, that is empty() is
   true exactly when size() == 0. *)
C5_EmptyIffSizeZero == empty <=> (size = 0)

(* C6: after inserting N pairwise distinct values size() == N, after then
   erasing K of them size() == N - K, and after clear() size() == 0 and
   empty() is true.  Checked under SpecSize, where live is the set of values
   inserted and not erased. *)
C6_SizeBookkeeping ==
    /\ size = Cardinality(live)
    /\ last.op = "clear" => (size = 0 /\ empty)

\* Three values were inserted and one of them has been erased.
C6_Witness ==
    /\ erased_last
    /\ Cardinality(erased) = 1
    /\ Cardinality(live) = 2

(* C7: inserting a node that is not in the tree and whose data equals the
   data of a node of the tree throws, and leaves size(), head_node and every
   node of the tree as they were. *)
C7_DuplicateInsertLeavesTree ==
    [][(/\ last'.op = "insert"
        /\ \E m \in in_tree : nodes[m].data = nodes[last'.node].data)
       => (/\ last'.case = "threw"
           /\ node_count' = node_count
           /\ head_node' = head_node
           /\ \A m \in in_tree : nodes'[m] = nodes[m])]_vars

\* An insert into a tree of three or more nodes has thrown.
C7_Witness ==
    /\ last.op = "insert"
    /\ last.case = "threw"
    /\ Cardinality(in_tree) >= 3

(* C8: after an erase (of a leaf, a one-child or a two-children node) the
   nodes reachable from head_node keep the search-tree ordering, and a
   forward traversal is strictly ascending and visits each of them. *)
C8_ErasePreservesOrdering ==
    erased_last =>
        /\ bst_ordered(nodes, head_node)
        /\ strictly_ascending(forward(nodes, head_node))
        /\ forward(nodes, head_node) = ascending({nodes[n].data : n \in in_tree})

\* A node with two children was erased by the data swap, and the tree still
\* has three nodes.
C8_Witness ==
    /\ erased_last
    /\ last.case = "swap"
    /\ Cardinality(in_tree) >= 3

(* C9: erase(i) leaves every iterator j to another node valid: the node j
   refers to is still in the tree and holds the same value. *)
C9_EraseKeepsOtherIterators ==
    [][last'.op = "erase" =>
          \A j \in in_tree \ {last'.node} :
              /\ j \in reachable(nodes', head_node')
              /\ nodes'[j].data = nodes[j].data]_vars

(* C10: erase(it) takes the node object it refers to out of the tree, and
   every other node object of the tree stays reachable from head_node. *)
C10_EraseDetachesTheNode ==
    [][last'.op = "erase" =>
          reachable(nodes', head_node') = in_tree \ {last'.node}]_vars

(* C11: a lookup that finds nothing is a result, not an error: find(value)
   on an empty tree (head_node == nullptr) returns end() and does not fault,
   and find(value) on a tree that holds no node with that value returns
   end().  find changes nothing of the tree in any case. *)
C11_NotFoundIsSafe ==
    last.op = "find" =>
        /\ last.case # "fault"
        /\ (\A n \in in_tree : nodes[n].data # last.value) => last.node = Null

(* C12: every node reachable from head_node is the parent of its left and of
   its right child, and the head node has no parent, in every state reached
   by inserts and erases. *)
C12_ParentBackReference ==
    /\ head_node # Null => nodes[head_node].parent = Null
    /\ \A n \in in_tree :
          /\ nodes[n].left # Null => nodes[nodes[n].left].parent = n
          /\ nodes[n].right # Null => nodes[nodes[n].right].parent = n

\* The node of the tree that holds the greatest, and the least, value.
greatest == CHOOSE n \in in_tree : \A m \in in_tree : nodes[m].data <= nodes[n].data

leftmost == CHOOSE n \in in_tree : \A m \in in_tree : nodes[n].data <= nodes[m].data

(* C13: on a non-empty tree ++ and -- of the tree iterator are inverses of
   each other at every position (a node of the tree, or end()): --(++p) == p
   and ++(--p) == p; ++ of the greatest node is end(), ++ of end() is begin(),
   the leftmost node; -- of end() is the greatest node and -- of begin() is
   end(). *)
C13_IncrementDecrementInverse ==
    head_node # Null =>
        /\ \A p \in in_tree \cup {Null} :
              /\ decrement(nodes, head_node, increment(nodes, head_node, p)) = p
              /\ increment(nodes, head_node, decrement(nodes, head_node, p)) = p
        /\ increment(nodes, head_node, greatest) = Null
        /\ increment(nodes, head_node, Null) = begin(nodes, head_node)
        /\ begin(nodes, head_node) = leftmost
        /\ decrement(nodes, head_node, Null) = greatest
        /\ decrement(nodes, head_node, begin(nodes, head_node)) = Null

\* A tree of all nodes of the pool, in which some node without a left child
\* is the right child of a right child: its predecessor is two levels up.
C13_Witness ==
    /\ Cardinality(in_tree) = NumNodes
    /\ \E n \in in_tree :
          /\ nodes[n].left = Null
          /\ nodes[n].parent # Null
          /\ nodes[nodes[n].parent].left = n
          /\ nodes[nodes[n].parent].parent # Null
          /\ nodes[nodes[nodes[n].parent].parent].right = nodes[n].parent

\* The values of the nodes A .. S in ascending order.
ScenarioForward ==
    <<10, 25, 50, 60, 75, 80, 100, 130, 135, 140,
      150, 200, 275, 300, 350, 375, 380, 385, 400>>

\* All inserts of the scenario are made and nothing is erased yet.
scenario_made == ops = Len(ScenarioData)

\* All inserts and all erases of the scenario are made.
scenario_done == ops = Len(ScenarioData) + Len(ScenarioErased)

(* C14: after the inserts of 100, 50, 200, 25, 75, 10, 60, 150, 140, 130, 135,
   300, 400, 350, 275, 375, 380, 385, 80 in that order the forward traversal
   is 10, 25, 50, 60, 75, 80, 100, 130, 135, 140, 150, 200, 275, 300, 350,
   375, 380, 385, 400; find(60) refers to a node that holds 60 and find(10001)
   is end(); after erase(find(50)) and erase(find(80)) the forward traversal
   is that list without 50 and 80.  Checked under SpecScenario. *)
C14_ClassCommentScenario ==
    /\ scenario_made => forward(nodes, head_node) = ScenarioForward
    /\ (scenario_made /\ last.op = "find" /\ last.value = 60)
          => (last.node # Null /\ nodes[last.node].data = 60)
    /\ (scenario_made /\ last.op = "find" /\ last.value = 10001)
          => (last.node = Null /\ last.case = "end")
    /\ scenario_done
          => forward(nodes, head_node) = without(without(ScenarioForward, 50), 80)

\* Both erases are made: 50 by the data swap with its successor 60, 80 as a
\* leaf.
C14_Witness ==
    /\ scenario_done
    /\ last.op = "erase"
    /\ last.case = "leaf"
    /\ Len(forward(nodes, head_node)) = Len(ScenarioData) - Len(ScenarioErased)

----------------------------------------------------------------------------
(* Vocabulary of the properties of the lists *)

\* The members of the sequence seq.
elements(seq) == {seq[i] : i \in DOMAIN seq}

\* The part of seq before x, all of seq when x is not in it (x is end()).
before(seq, x) ==
    IF x \in elements(seq)
    THEN SubSeq(seq, 1, (CHOOSE i \in DOMAIN seq : seq[i] = x) - 1)
    ELSE seq

\* The part of seq from x on, nothing when x is not in it (x is end()).
from(seq, x) ==
    IF x \in elements(seq)
    THEN SubSeq(seq, CHOOSE i \in DOMAIN seq : seq[i] = x, Len(seq))
    ELSE << >>

\* The sequence seq without the members of the set S.
without_all(seq, S) == SelectSeq(seq, LAMBDA x : x \notin S)

reversed(seq) == [i \in DOMAIN seq |-> seq[Len(seq) + 1 - i]]

(* C15: after any sequence of push_front, push_back, pop_front, pop_back,
   insert(pos, node), insert(pos, first, last) and erase(pos) on the lists,
   every node reachable from a list's sentinel, and the sentinel itself, is
   the prev_ of its next_ and the next_ of its prev_. *)
C15_DoublyLinked == doubly_linked(list_nodes)

(* C16: insert(pos, first, last) on list B, with [first, last) a forward range
   of K >= 1 nodes of another list A and pos a position of B, makes A.size()
   K less and B.size() K more, puts the K nodes right before pos in the order
   they had, and keeps the order of the other nodes of A and of B; A is empty
   when the range was all of A.  Checked under SpecList. *)
C16_SplicePreservesCountAndOrder ==
    [][(/\ list_last'.op = "insert_range"
        /\ list_last'.first # list_last'.last_node
        /\ list_last'.src # list_last'.list)
       => LET A  == list_last'.src
              B  == list_last'.list
              r  == walk(list_nodes, list_last'.first, list_last'.last_node,
                         Cardinality(DOMAIN list_nodes))
              tA == traversal(list_nodes, A)
              tB == traversal(list_nodes, B)
          IN  /\ list_size(list_nodes', A) = list_size(list_nodes, A) - Len(r)
              /\ list_size(list_nodes', B) = list_size(list_nodes, B) + Len(r)
              /\ traversal(list_nodes', B)
                    = before(tB, list_last'.pos) \o r \o from(tB, list_last'.pos)
              /\ traversal(list_nodes', A) = without_all(tA, elements(r))
              /\ Len(r) = Len(tA) => list_empty(list_nodes', A)]_vars

\* A range that is not all of its list was moved into another list, before
\* a node of that list.
C16_Witness ==
    /\ list_last.op = "insert_range"
    /\ list_last.first # list_last.last_node
    /\ list_last.src # list_last.list
    /\ list_last.pos # list_last.list
    /\ ~list_empty(list_nodes, list_last.src)

(* C17: from an empty list, push_back of the unattached nodes n1 .. nk gives
   the forward traversal n1 .. nk, front() == n1.data, back() == nk.data and
   size() == k; push_front of n1 .. nk gives the forward traversal nk .. n1,
   front() == nk.data and back() == n1.data.  list_last.run is n1 .. nk.
   Checked under SpecList. *)
C17_PushOrder ==
    /\ (list_last.op = "push_back" /\ list_last.run # << >>)
          => /\ traversal(list_nodes, list_last.list) = list_last.run
             /\ front(list_nodes, list_last.list) = list_nodes[Head(list_last.run)].data_
             /\ back(list_nodes, list_last.list)
                   = list_nodes[list_last.run[Len(list_last.run)]].data_
             /\ list_size(list_nodes, list_last.list) = Len(list_last.run)
    /\ (list_last.op = "push_front" /\ list_last.run # << >>)
          => /\ traversal(list_nodes, list_last.list) = reversed(list_last.run)
             /\ front(list_nodes, list_last.list)
                   = list_nodes[list_last.run[Len(list_last.run)]].data_
             /\ back(list_nodes, list_last.list) = list_nodes[Head(list_last.run)].data_
             /\ list_size(list_nodes, list_last.list) = Len(list_last.run)

\* All nodes of the caller were pushed to the back of one list.
C17_Witness ==
    /\ list_last.op = "push_back"
    /\ Len(list_last.run) = NumListNodes

(* C18: insert(pos, node) returns an iterator to node and links node right
   before pos, for every node of the caller, unattached or linked in this or
   in another list, and every position pos of this list: afterwards
   node.next_ is the node at pos, the lists are doubly-linked, this list is
   what it was without node, with node put before pos, and every other list
   is what it was without node. *)
C18_InsertLinksBeforePos ==
    [][list_last'.op = "insert"
       => LET node == list_last'.node
              pos  == list_last'.pos
              t    == without(traversal(list_nodes, list_last'.list), node)
          IN  /\ list_last'.ret = node
              /\ list_nodes'[node].next_ = pos
              /\ doubly_linked(list_nodes')
              /\ traversal(list_nodes', list_last'.list)
                    = before(t, pos) \o <<node>> \o from(t, pos)
              /\ \A other \in Sentinels \ {list_last'.list} :
                    traversal(list_nodes', other)
                      = without(traversal(list_nodes, other), node)]_vars

(* C19: erase(pos) on a position pos != end() takes exactly the node at pos
   out of the list and leaves it self-looped (next_ == prev_ == itself); the
   other nodes keep their order, the other lists are untouched, and the
   iterator returned refers to the node that followed pos, end() when pos was
   the last node.  Checked under SpecList. *)
C19_EraseRemovesTheNode ==
    [][list_last'.op = "erase"
       => LET pos == list_last'.pos
              t   == traversal(list_nodes, list_last'.list)
          IN  /\ traversal(list_nodes', list_last'.list) = without(t, pos)
              /\ list_nodes'[pos].next_ = pos
              /\ list_nodes'[pos].prev_ = pos
              /\ list_last'.ret = IF Len(from(t, pos)) > 1
                                  THEN from(t, pos)[2]
                                  ELSE list_end(list_nodes, list_last'.list)
              /\ \A other \in Sentinels \ {list_last'.list} :
                    traversal(list_nodes', other) = traversal(list_nodes, other)]_vars

\* A node that was not the last of its list was erased, and the list still
\* holds a node before and a node after it.
C19_Witness ==
    /\ list_last.op = "erase"
    /\ list_last.ret # list_last.list
    /\ list_begin(list_nodes, list_last.list) # list_last.ret

(* C20: insert(pos, first, last) with first == last returns pos and changes
   no link of any node of any list.  Checked under SpecList. *)
C20_EmptyRangeIsNoOp ==
    [][(list_last'.op = "insert_range" /\ list_last'.first = list_last'.last_node)
       => (list_last'.ret = list_last'.pos /\ list_nodes' = list_nodes)]_vars

\* An empty range at a node of one list was inserted before a node of
\* another list.
C20_Witness ==
    /\ list_last.op = "insert_range"
    /\ list_last.first = list_last.last_node
    /\ list_last.first \in ListNodes
    /\ list_last.pos \in ListNodes
    /\ list_last.src # Null
    /\ list_last.src # list_last.list

(* C21: a node is in at most one list: after any sequence of pushes (also of
   a node that is in another list), pops, inserts, erases and splices over
   the lists, every node of the caller is self-looped or is reached from the
   sentinel of exactly one list. *)
C21_InAtMostOneList ==
    \A n \in ListNodes :
        \/ list_nodes[n].next_ = n /\ list_nodes[n].prev_ = n
        \/ Cardinality({list \in Sentinels : n \in positions(list_nodes, list)}) = 1

\* The nodes operator-- visits from rbegin() to rend().
reverse_traversal(ls, list) ==
    walk_back(ls, list_rbegin(ls, list), list_end(ls, list), Cardinality(DOMAIN ls))

(* C22: in every state of the lists, ++ from begin() reaches end() after
   exactly size() steps and visits each node of the list once, -- from
   rbegin() reaches rend() == end() after size() steps, ++end() is begin()
   and --end() refers to the last node. *)
C22_TraversalTerminates ==
    \A list \in Sentinels :
        LET t == traversal(list_nodes, list)
            r == reverse_traversal(list_nodes, list)
        IN  /\ t # << >> => list_nodes[t[Len(t)]].next_ = list_end(list_nodes, list)
            /\ Len(t) = list_size(list_nodes, list)
            /\ Cardinality(elements(t)) = Len(t)
            /\ r # << >> => list_nodes[r[Len(r)]].prev_ = list_end(list_nodes, list)
            /\ Len(r) = list_size(list_nodes, list)
            /\ r = reversed(t)
            /\ list_nodes[list_end(list_nodes, list)].next_ = list_begin(list_nodes, list)
            /\ t # << >> => list_nodes[list_end(list_nodes, list)].prev_ = t[Len(t)]

(* C23: on a non-empty list, erase(begin()) followed by push_front of the
   erased node gives back the node sequence the list had before, and so does
   erase of the last node (rbegin()) followed by push_back of that node.
   list_last.undoes is the sequence before the erase.  Checked under
   SpecList. *)
C23_ErasePushRoundTrip ==
    /\ (/\ list_last.op = "push_front"
        /\ list_last.undoes # << >>
        /\ Head(list_last.undoes) = list_last.node)
          => traversal(list_nodes, list_last.list) = list_last.undoes
    /\ (/\ list_last.op = "push_back"
        /\ list_last.undoes # << >>
        /\ list_last.undoes[Len(list_last.undoes)] = list_last.node)
          => traversal(list_nodes, list_last.list) = list_last.undoes

\* The first node of a list of all the caller's nodes was erased and pushed
\* to the front again.
C23_Witness ==
    /\ list_last.op = "push_front"
    /\ Len(list_last.undoes) = NumListNodes
    /\ Head(list_last.undoes) = list_last.node

(* C29: erasing the head node keeps the tree rooted at a node of the tree:
   after erase of a head with exactly one child, head_node is that child, the
   child has no parent, and every other node that was in the tree is still
   reachable from head_node; after erase of a head that is the only node,
   head_node is nullptr. *)
C29_EraseHeadKeepsRoot ==
    [][(last'.op = "erase" /\ last'.node = head_node)
       => LET child == IF nodes[head_node].left # Null
                       THEN nodes[head_node].left
                       ELSE nodes[head_node].right
          IN  /\ last'.case \in {"left_only", "right_only"}
                    => /\ head_node' = child
                       /\ nodes'[child].parent = Null
                       /\ reachable(nodes', head_node') = in_tree \ {head_node}
              /\ last'.case = "leaf" => head_node' = Null]_vars

(* C30: erase of a node that has a parent and two children, with its in-order
   successor being its right child: the right child takes the node's place
   under the parent, the node's left subtree becomes the left subtree of the
   promoted child, its root's parent being that child, and no node other
   than the erased one leaves the tree. *)
C30_EraseSuccessorIsRightChild ==
    [][(/\ last'.op = "erase"
        /\ last'.case = "next_is_right"
        /\ nodes[last'.node].parent # Null)
       => LET this     == last'.node
              promoted == nodes[this].right
              above    == nodes[this].parent
          IN  /\ nodes[above].left = this => nodes'[above].left = promoted
              /\ nodes[above].right = this => nodes'[above].right = promoted
              /\ nodes'[promoted].parent = above
              /\ nodes'[promoted].left = nodes[this].left
              /\ nodes'[nodes[this].left].parent = promoted
              /\ reachable(nodes', head_node') = in_tree \ {this}]_vars

\* The NotifyAll call in progress, or the last one made, in each
\* implementation.
broadcast(b) ==
    [running |-> b.running, began |-> b.began, notified |-> b.notified,
     fault |-> b.fault]

broadcasts == {broadcast(notifying.linked_list), broadcast(notifying.std_list)}

(* C24: NotifyAll tolerates observers that detach themselves in Notify: in
   both implementations no observer is notified twice by one NotifyAll call
   and only observers attached when the call began are notified, so the call
   returns; while it has not returned an observer is left to notify; when it
   has returned every observer attached when it began, the self-detaching
   ones included, has been notified.  The observers attached when a call
   begins are those attached and not detached since, by themselves in an
   earlier call or by the caller. *)
C24_SelfDetachInNotify ==
    \A b \in broadcasts :
        /\ ~b.fault
        /\ Cardinality(elements(b.notified)) = Len(b.notified)
        /\ elements(b.notified) \subseteq b.began
        /\ b.running => elements(b.notified) # b.began
        /\ ~b.running /\ notifying.observable # Null => elements(b.notified) = b.began

\* A NotifyAll call has returned in which all observers were notified, two
\* of them detached themselves and the third is still attached.
C24_Witness ==
    /\ notifying.observable # Null
    /\ observer_idle
    /\ \A b \in broadcasts : elements(b.notified) = Observers
    /\ \A i \in DOMAIN attached :
          Cardinality(attached[i][notifying.observable]) = NumListNodes - 2

(* C25: GetObserverCount() is the number of observers attached to the
   Observable: after any sequence of Attach, Detach and NotifyAll with
   self-detaching callbacks, in both implementations, it equals the number
   of distinct observers attached to that Observable and not detached
   since. *)
C25_CountIsAttached ==
    \A observable \in Observables :
        /\ linked_list_GetObserverCount(observer_nodes, observable)
              = Cardinality(attached.linked_list[observable])
        /\ std_list_GetObserverCount(observer_list, observable)
              = Cardinality(attached.std_list[observable])

(* C26: an observer that has been detached is no longer notified: in both
   implementations every Notify call is made on an observer that is attached
   and has not been detached since, also when it was detached by the Notify
   callback of another observer earlier in the same NotifyAll call. *)
C26_DetachedIsNotNotified ==
    [][\A i \in DOMAIN attached :
          Len(notifying'[i].notified) = Len(notifying[i].notified) + 1
             => notifying'[i].notified[Len(notifying'[i].notified)]
                   \in attached[i][notifying.observable]]_vars

\* The Nodes of the tree: those reached from the root over the child links.
in_btree == {n \in BTreeNodes : n = 1 \/ n \in {btree[n \div 2].leftChild, btree[n \div 2].rightChild}}

\* The Nodes of the tree to the right of n on the row of n.
right_of(n) ==
    {m \in in_btree :
        /\ NodeTestValueGetRow(btree[m].data) = NodeTestValueGetRow(btree[n].data)
        /\ NodeTestValueGetCol(btree[m].data) > NodeTestValueGetCol(btree[n].data)}

(* C27: after TransformBinaryTree(root) on a tree whose rightSibling links
   were all null, the rightSibling of the rightmost node of each row is the
   sentinel and the rightSibling of every other node is the nearest node to
   its right on its row. *)
C27_RightSiblings ==
    transformed =>
        \A n \in in_btree :
            IF right_of(n) = {}
            THEN btree[n].rightSibling = sentinal
            ELSE /\ btree[n].rightSibling \in right_of(n)
                 /\ \A m \in right_of(n) :
                       NodeTestValueGetCol(btree[m].data)
                          >= NodeTestValueGetCol(btree[btree[n].rightSibling].data)

(* C28: the gregorian conversions are inverse to each other: a count of
   seconds since the epoch converted to the calendar and back is the same
   count, and a valid calendar date and time of the year 1601 or later
   converted to seconds and back has the same year, month, day_of_month,
   hours, minutes and seconds. *)
C28_GregorianRoundTrip ==
    /\ conversion.op = "seconds" => conversion.back = conversion.seconds
    /\ conversion.op = "calendar" =>
          /\ ~conversion.back.fault
          /\ \A member \in {"year", "month", "day_of_month", "hours", "minutes", "seconds"} :
                conversion.back[member] = conversion.calendar[member]

(* C31: erase of a node with two children whose in-order successor is not
   its right child: after the swap of the data and the detachment of the
   successor node, every node of the successor's right subtree is still
   reachable from head_node, and exactly one node has left the tree. *)
C31_EraseSwapKeepsRightSubtree ==
    [][(last'.op = "erase" /\ last'.case = "swap")
       => LET next_node == get_next(nodes, last'.node)
          IN  /\ reachable(nodes, nodes[next_node].right)
                    \subseteq reachable(nodes', head_node')
              /\ Cardinality(in_tree \ reachable(nodes', head_node')) = 1]_vars

(* C32: insert of a node that is still linked in the tree detaches it from
   its old position before it is attached: the call does not throw, and
   after it no node other than the new parent of the node has the node as
   its left or right child and no former child of the node has it as its
   parent. *)
C32_InsertDetachesLinkedNode ==
    [][(last'.op = "insert" /\ last'.node \in in_tree)
       => LET node == last'.node
          IN  /\ last'.case # "threw"
              /\ \A m \in Nodes \ {nodes'[node].parent} :
                    nodes'[m].left # node /\ nodes'[m].right # node
              /\ \A child \in {nodes[node].left, nodes[node].right} \ {Null} :
                    nodes'[child].parent # node]_vars

(* C33: clear() sets head_node to nullptr and node_count to 0 and leaves the
   parent, left, right and data of every node as they are; when nodes of the
   cleared tree are inserted again the tree is ordered, its traversal is the
   inserted values in ascending order and node_count is the number of its
   nodes. *)
C33_ClearResetsBookkeeping ==
    [][/\ last'.op = "clear"
          => head_node' = Null /\ node_count' = 0 /\ nodes' = nodes
       /\ bst_ordered(nodes', head_node')
       /\ forward(nodes', head_node') = ascending(live')
       /\ node_count' = Cardinality(reachable(nodes', head_node'))]_vars

\* A node was inserted under the head of a tree built after a clear: a node
\* that is not in the tree still has a node of the tree as its child.
C33_Witness ==
    /\ last.op = "insert"
    /\ last.case = "child"
    /\ \E m \in Nodes \ in_tree :
          {nodes[m].left, nodes[m].right} \cap in_tree # {}

(* C34: pop_front() and pop_back() on an empty list change no link of any
   node and the sentinel stays self-looped; on a list that is not empty they
   remove the first (pop_back: the last) node and no other node from the
   traversal, that node is left with next_ and prev_ referring to itself,
   and every other list is traversed as before. *)
C34_PopFrontPopBack ==
    [][list_last'.op \in {"pop_front", "pop_back"}
       => LET list == list_last'.list
              was  == traversal(list_nodes, list)
              node == IF list_last'.op = "pop_front"
                      THEN was[1] ELSE was[Len(was)]
          IN  IF was = << >>
              THEN /\ list_nodes' = list_nodes
                   /\ list_nodes'[list].next_ = list
                   /\ list_nodes'[list].prev_ = list
              ELSE /\ traversal(list_nodes', list) =
                         IF list_last'.op = "pop_front"
                         THEN Tail(was) ELSE SubSeq(was, 1, Len(was) - 1)
                   /\ reverse_traversal(list_nodes', list) =
                         reversed(traversal(list_nodes', list))
                   /\ list_nodes'[node].next_ = node
                   /\ list_nodes'[node].prev_ = node
                   /\ \A other \in Sentinels \ {list} :
                         traversal(list_nodes', other)
                            = traversal(list_nodes, other)
                   /\ \A n \in DOMAIN list_nodes :
                         n \notin {node, list_nodes[node].next_,
                                   list_nodes[node].prev_}
                            => list_nodes'[n] = list_nodes[n]]_vars

\* pop_front() has just been called on an empty list while the other list
\* holds nodes.
C34_Witness ==
    /\ list_last.op = "pop_front"
    /\ list_last.was = << >>
    /\ \E other \in Sentinels \ {list_last.list} : ~list_empty(list_nodes, other)

(* C35: insert(pos, first, last) with [first, last) a forward range of the
   list of pos and pos not in the range keeps size() and leaves every list
   doubly linked, puts the nodes of the range right before pos in the order
   they had with the other nodes of the list in their order around them, and
   changes no link at all when pos == last.  Checked under SpecList. *)
C35_SpliceWithinList ==
    [][(/\ list_last'.op = "insert_range"
        /\ list_last'.src = list_last'.list)
       => LET list == list_last'.list
              pos  == list_last'.pos
              r    == walk(list_nodes, list_last'.first, list_last'.last_node,
                           Cardinality(DOMAIN list_nodes))
              was  == traversal(list_nodes, list)
              rest == without_all(was, elements(r))
          IN  /\ list_size(list_nodes', list) = list_size(list_nodes, list)
              /\ doubly_linked(list_nodes')
              /\ traversal(list_nodes', list)
                    = before(rest, pos) \o r \o from(rest, pos)
              /\ reverse_traversal(list_nodes', list)
                    = reversed(traversal(list_nodes', list))
              /\ pos = list_last'.last_node => list_nodes' = list_nodes]_vars

\* A range of a list that holds three nodes was moved within that list, to
\* before a position other than last.
C35_Witness ==
    /\ list_last.op = "insert_range"
    /\ list_last.src = list_last.list
    /\ list_last.first # list_last.last_node
    /\ list_last.pos # list_last.last_node
    /\ list_size(list_nodes, list_last.list) = NumListNodes

(* C36: every NotifyAll call of the linked_list Observable returns after
   finitely many Notify calls, whatever Attach or Detach call on this
   Observable the Notify of each observer makes.  Checked under
   SpecObserverLoop. *)
C36_NotifyAllTerminates ==
    notifying.linked_list.running ~> ~notifying.linked_list.running

(* C37: a call Detach(observer) on an Observable to which the observer is not
   attached, the observer being unattached or attached to another Observable,
   leaves the observer list and the GetObserverCount of every Observable as
   they were.  Checked under SpecObserverScope. *)
C37_DetachScoped ==
    [][\A observable \in Observables, observer \in Observers :
          Detach_unattached(observable, observer)
             => \A o \in Observables :
                   /\ traversal(observer_nodes', o) = traversal(observer_nodes, o)
                   /\ linked_list_GetObserverCount(observer_nodes', o)
                         = linked_list_GetObserverCount(observer_nodes, o)]_vars

\* The sequence s is the beginning of the sequence t.
prefix(s, t) == Len(s) <= Len(t) /\ s = SubSeq(t, 1, Len(s))

(* C38: the linked_list Observable and the std::list Observable, given the
   same Attach, Detach and NotifyAll calls (Attach of an observer that is
   attached already and Notify callbacks that detach their own observer
   included), make the same Notify calls on the same observers in the same
   order, and after every call GetObserverCount() is the same in both.
   Checked under SpecObserverAny. *)
C38_ImplementationsAgree ==
    /\ \/ prefix(notifying.linked_list.notified, notifying.std_list.notified)
       \/ prefix(notifying.std_list.notified, notifying.linked_list.notified)
    /\ observer_idle
          => /\ notifying.linked_list.notified = notifying.std_list.notified
             /\ notifying.linked_list.fault = notifying.std_list.fault
             /\ \A observable \in Observables :
                   linked_list_GetObserverCount(observer_nodes, observable)
                      = std_list_GetObserverCount(observer_list, observable)

====
